---------------------------- MODULE Spec2Model ----------------------------
(***************************************************************************)
(* RecordingReportAPI of webexteamssdk (api/recording_report.py):          *)
(*   access_summary  - a generator function wrapped in a generator         *)
(*                     container; each iterator requested from the         *)
(*                     container runs the generator body again.            *)
(*   access_detail   - one synchronous request, one constructed object.    *)
(* The REST session (get_items, get), check_type,                          *)
(* dict_from_items_with_values and generator_container are collaborators   *)
(* whose code is outside the two source files; they are modelled from the  *)
(* specification's description of them.                                    *)
(***************************************************************************)
EXTENDS Integers, Sequences, FiniteSets, TLC

(***************************************************************************)
(* Bounds of the model.                                                    *)
(***************************************************************************)
MaxPages == 2
MaxPageLen == 2
MaxIters == 2
MaxRequests == 5
MaxDetailFetches == 2

(***************************************************************************)
(* State.                                                                  *)
(*   pages      the chain of pages the server holds for the summary query  *)
(*   container  the GeneratorContainer access_summary returned, if any     *)
(*   created    the query specification (endpoint, parameter mapping) as   *)
(*              of the call that created the container (history variable)  *)
(*   iters      the iterators requested from the container                 *)
(*   fetchCount the number of calls made on the REST session               *)
(*   detail     the last access_detail call and its outcome                *)
(***************************************************************************)
VARIABLES pages, container, created, iters, fetchCount, detail

vars == <<pages, container, created, iters, fetchCount, detail>>

(***************************************************************************)
(* Python values: a type tag and a printed value.  Omitted marks a keyword *)
(* the caller did not pass, so that the signature's default applies.       *)
(***************************************************************************)
None == [t |-> "none", v |-> ""]
Omitted == [t |-> "omitted", v |-> ""]
IntV(s) == [t |-> "int", v |-> s]
StrV(s) == [t |-> "str", v |-> s]

EmptyDict == [k \in {} |-> None]

API_ENDPOINT == "recordingReport"
OBJECT_TYPE == "recording_report"

(***************************************************************************)
(* Collaborators modelled from the specification.                          *)
(***************************************************************************)
\* check_type(o, acceptable_type, optional): TRUE when no TypeError is raised.
CheckType(o, type, optional) ==
    IF o.t = "none" THEN optional ELSE o.t = type

\* "basestring"
basestring == "str"

\* dict_from_items_with_values(request_parameters, **items): the extra
\* parameters verbatim, and every keyword item whose value is not None
\* (an item wins over an extra parameter of the same name).
DictFromItemsWithValues(request_parameters, items) ==
    [k \in {n \in DOMAIN items : items[n].t # "none"} |-> items[k]]
        @@ request_parameters

\* object_factory(type_tag, raw record): the typed wrapper of one record.
ObjectFactory(type, json) == [type |-> type, json |-> json]

NoObject == [type |-> "", json |-> 0]

(***************************************************************************)
(* access_summary: signature, validation, parameter mapping, endpoint.     *)
(***************************************************************************)
\* The keyword arguments of a call, bound to the signature: an omitted
\* keyword takes its default, the unrecognized ones are request_parameters.
BindSummaryArgs(kw) ==
    [max       |-> IF kw.max = Omitted THEN None ELSE kw.max,
     _from     |-> IF kw._from = Omitted THEN None ELSE kw._from,
     to        |-> IF kw.to = Omitted THEN None ELSE kw.to,
     hostEmail |-> IF kw.hostEmail = Omitted THEN StrV("all") ELSE kw.hostEmail,
     siteUrl   |-> IF kw.siteUrl = Omitted THEN None ELSE kw.siteUrl,
     request_parameters |-> kw.extra]

\* Mutant of SummaryArgsOk: the check of max is forgotten.
SummaryArgsOkNoMax(a) ==
    /\ CheckType(a._from, basestring, TRUE)
    /\ CheckType(a.to, basestring, TRUE)
    /\ CheckType(a.hostEmail, basestring, TRUE)
    /\ CheckType(a.siteUrl, basestring, TRUE)

\* The five check_type calls of the generator body.
SummaryArgsOk(a) ==
    /\ CheckType(a.max, "int", TRUE)
    /\ CheckType(a._from, basestring, TRUE)
    /\ CheckType(a.to, basestring, TRUE)
    /\ CheckType(a.hostEmail, basestring, TRUE)
    /\ CheckType(a.siteUrl, basestring, TRUE)

\* Mutant of AccessSummaryParams: one mapping is shared by all iterations and
\* keeps the continuation token written into it by an earlier fetch.
AccessSummaryParamsShared(a) ==
    LET fresh == DictFromItemsWithValues(
                     a.request_parameters,
                     [max_recordings |-> a.max, _from |-> a._from, to |-> a.to,
                      hostEmail |-> a.hostEmail, siteUrl |-> a.siteUrl])
    IN  IF fetchCount > 0 THEN [next |-> StrV("token")] @@ fresh ELSE fresh

\* params = dict_from_items_with_values(request_parameters, max_recordings=max, ...)
AccessSummaryParams(a) ==
    DictFromItemsWithValues(
        a.request_parameters,
        [max_recordings |-> a.max,
         _from          |-> a._from,
         to             |-> a.to,
         hostEmail      |-> a.hostEmail,
         siteUrl        |-> a.siteUrl])

SummaryEndpoint == API_ENDPOINT \o "/accessSummary"

(***************************************************************************)
(* access_detail: signature, validation, parameter mapping, endpoint.      *)
(***************************************************************************)
BindDetailArgs(kw) ==
    [recordingId |-> kw.recordingId,
     max         |-> IF kw.max = Omitted THEN None ELSE kw.max,
     hostEmail   |-> IF kw.hostEmail = Omitted THEN None ELSE kw.hostEmail,
     request_parameters |-> kw.extra]

\* Mutant of DetailArgsOk: recordingId is checked as an optional parameter.
DetailArgsOkOptionalId(a) ==
    /\ CheckType(a.max, "int", TRUE)
    /\ CheckType(a.recordingId, basestring, TRUE)
    /\ CheckType(a.hostEmail, basestring, TRUE)

\* The three check_type calls of access_detail.
DetailArgsOk(a) ==
    /\ CheckType(a.max, "int", TRUE)
    /\ CheckType(a.recordingId, basestring, FALSE)
    /\ CheckType(a.hostEmail, basestring, TRUE)

AccessDetailParams(a) ==
    DictFromItemsWithValues(
        a.request_parameters,
        [max         |-> a.max,
         recordingId |-> a.recordingId,
         hostEmail   |-> a.hostEmail])

DetailEndpoint == API_ENDPOINT \o "/accessDetail"

(***************************************************************************)
(* The calls the model makes.                                              *)
(***************************************************************************)
NoKw == [max |-> Omitted, _from |-> Omitted, to |-> Omitted,
         hostEmail |-> Omitted, siteUrl |-> Omitted, extra |-> EmptyDict]

SummaryCalls ==
    { NoKw,
      [NoKw EXCEPT !.max = IntV("5"), !._from = StrV("2020-01-01"),
                   !.to = StrV("2020-02-01"), !.hostEmail = None,
                   !.siteUrl = StrV("site.webex.com"),
                   !.extra = [x |-> StrV("1")]],
      [NoKw EXCEPT !.max = StrV("5")],
      [NoKw EXCEPT !._from = IntV("5")],
      [NoKw EXCEPT !.to = IntV("5"), !.max = IntV("5")],
      [NoKw EXCEPT !.hostEmail = IntV("5")],
      [NoKw EXCEPT !.siteUrl = IntV("5"), !.extra = [x |-> StrV("1")]] }

DetailCalls ==
    [recordingId : {None, StrV("rec1"), IntV("5")},
     max         : {Omitted, None, IntV("5"), StrV("5")},
     hostEmail   : {Omitted, StrV("h@x.com"), IntV("5")},
     extra       : {EmptyDict, [x |-> StrV("1")]}]

(***************************************************************************)
(* The server: a chain of pages, every page but the last carrying the      *)
(* continuation token of the next one.  The raw record j of page p is the  *)
(* number 10p + j.                                                         *)
(***************************************************************************)
NoToken == 0

Chain(lens) ==
    [p \in 1..Len(lens) |->
        [items |-> [j \in 1..lens[p] |-> 10 * p + j],
         next  |-> IF p < Len(lens) THEN p + 1 ELSE NoToken]]

PageChains ==
    { Chain(lens) : lens \in UNION { [1..k -> 0..MaxPageLen] : k \in 1..MaxPages } }

(***************************************************************************)
(* session.get_items(url, params), modelled from the specification's       *)
(* pagination algorithm: resuming the item generator at page pg, position  *)
(* pos.  It hands out the next item of the current page; at the end of a   *)
(* page it fetches the page the continuation token names (the initial      *)
(* fetch when no page was fetched yet), repeatedly while pages are empty,  *)
(* and stops at a page without token.  The fetch of page failAt raises.    *)
(* fetched counts the session calls made.                                  *)
(***************************************************************************)
RECURSIVE GetItemsNext(_, _, _)
GetItemsNext(pg, pos, failAt) ==
    IF pg > 0 /\ pos < Len(pages[pg].items)
    THEN [kind |-> "item", pg |-> pg, pos |-> pos + 1,
          item |-> pages[pg].items[pos + 1], fetched |-> 0]
    ELSE IF pg > 0 /\ pages[pg].next = NoToken
    THEN [kind |-> "stop", pg |-> pg, pos |-> pos, item |-> 0, fetched |-> 0]
    ELSE LET nxt == IF pg = 0 THEN 1 ELSE pages[pg].next
         IN  IF failAt = nxt
             THEN [kind |-> "error", pg |-> pg, pos |-> pos, item |-> 0,
                   fetched |-> 1]
             ELSE LET r == GetItemsNext(nxt, 0, failAt)
                  IN  [r EXCEPT !.fetched = @ + 1]

\* session.get(url, params): the JSON body of the one response.
SessionGet(endpoint, params) == 1

(***************************************************************************)
(* Iterators.  st: absent (not requested), fresh (generator created, body  *)
(* not entered), running (suspended at the yield), exhausted, typeerror,   *)
(* apierror.  pg, pos: the position of the item generator.  out: the       *)
(* objects yielded.  fetches: session calls of this iteration.  first: the *)
(* initial fetch.  reqs: item requests of the consumer.  failed: the page  *)
(* whose fetch raised (0: none).                                           *)
(***************************************************************************)
NoFetch == [done |-> FALSE, endpoint |-> "", params |-> EmptyDict]

AbsentIter ==
    [st |-> "absent", pg |-> 0, pos |-> 0, out |-> <<>>, fetches |-> 0,
     first |-> NoFetch, reqs |-> 0, failed |-> 0]

NoContainer == [made |-> FALSE, kw |-> NoKw]

\* items = session.get_items(endpoint, params); for item in items: yield ...
\* One resumption of the loop, r being what the item generator answered.
Deliver(g, a, r) ==
    LET g1 == [g EXCEPT !.pg = r.pg, !.pos = r.pos,
                        !.fetches = @ + r.fetched,
                        !.first = IF g.pg = 0 /\ r.fetched > 0
                                  THEN [done |-> TRUE,
                                        endpoint |-> SummaryEndpoint,
                                        params |-> AccessSummaryParams(a)]
                                  ELSE @]
    IN  CASE r.kind = "item" ->
               [g1 EXCEPT !.st = "running",
                          !.out = Append(@, ObjectFactory(OBJECT_TYPE, r.item))]
          [] r.kind = "stop" -> [g1 EXCEPT !.st = "exhausted"]
          [] r.kind = "error" -> [g1 EXCEPT !.st = "apierror"]

\* The generator body of access_summary resumed, from its start (the checks,
\* the parameter mapping, get_items) or from the yield, r being what the item
\* generator answers when the loop asks it.  A finished generator stays so.
ResumeWith(g, r) ==
    LET a == BindSummaryArgs(container.kw)
    IN  IF g.st = "fresh" /\ ~SummaryArgsOk(a)
        THEN [g EXCEPT !.st = "typeerror"]
        ELSE IF g.st \in {"fresh", "running"}
        THEN Deliver(g, a, r)
        ELSE g

\* Mutant of GenResume: the body reads one page (session.get) instead of
\* following the continuation tokens.
GenResumeFirstPageOnly(g, failAt) ==
    LET r == GetItemsNext(g.pg, g.pos, failAt)
    IN  IF g.pg > 0 /\ r.fetched > 0
        THEN ResumeWith(g, [kind |-> "stop", pg |-> g.pg, pos |-> g.pos,
                            item |-> 0, fetched |-> 0])
        ELSE ResumeWith(g, r)

\* Mutant of GenResume: once an iteration has run to its end the pages are
\* kept, and later resumptions are served without calling the session.
GenResumeCached(g, failAt) ==
    IF \E j \in 1..MaxIters : iters[j].st = "exhausted"
    THEN ResumeWith(g, [GetItemsNext(g.pg, g.pos, 0) EXCEPT !.fetched = 0])
    ELSE ResumeWith(g, GetItemsNext(g.pg, g.pos, failAt))

\* Mutant of GenResume: an error of the session ends the loop silently.
GenResumeSwallow(g, failAt) ==
    LET r == GetItemsNext(g.pg, g.pos, failAt)
        h == ResumeWith(g, r)
    IN  IF h.st = "apierror" THEN [h EXCEPT !.st = "exhausted"] ELSE h

\* Mutant of GenResume: the body drains the item generator into a list
\* before its first yield, so every page is fetched at the first request.
GenResumeEager(g, failAt) ==
    LET h == ResumeWith(g, GetItemsNext(g.pg, g.pos, failAt))
    IN  IF g.st = "fresh" /\ h.st \in {"running", "exhausted"}
        THEN [h EXCEPT !.fetches = Len(pages)]
        ELSE h

\* Mutant of GenResume: the item generator is created once and shared by
\* every iterator, so each resumes where the most advanced one stands.
GenResumeShared(g, failAt) ==
    LET lead == CHOOSE j \in 1..MaxIters :
                   \A k \in 1..MaxIters :
                      \/ iters[k].pg < iters[j].pg
                      \/ iters[k].pg = iters[j].pg /\ iters[k].pos <= iters[j].pos
    IN  ResumeWith(g, GetItemsNext(iters[lead].pg, iters[lead].pos, failAt))

\* One next() on the generator of access_summary.
GenResume(g, failAt) == ResumeWith(g, GetItemsNext(g.pg, g.pos, failAt))

\* access_detail(recordingId, max, hostEmail, **request_parameters); ok says
\* whether the session answers or raises.
AccessDetail(kw, ok) ==
    LET a == BindDetailArgs(kw)
    IN  IF ~DetailArgsOk(a)
        THEN [kind |-> "TypeError", obj |-> NoObject, sent |-> NoFetch]
        ELSE LET params == AccessDetailParams(a)
                 sent == [done |-> TRUE, endpoint |-> DetailEndpoint,
                          params |-> params]
             IN  IF ok
                 THEN [kind |-> "object",
                       obj |-> ObjectFactory(OBJECT_TYPE,
                                             SessionGet(DetailEndpoint, params)),
                       sent |-> sent]
                 ELSE [kind |-> "ApiError", obj |-> NoObject, sent |-> sent]

NoDetail ==
    [called |-> FALSE, kw |-> [recordingId |-> None, max |-> Omitted,
                               hostEmail |-> Omitted, extra |-> EmptyDict],
     kind |-> "none", obj |-> NoObject, sent |-> NoFetch, before |-> 0]

(***************************************************************************)
(* Initial states and actions.                                             *)
(***************************************************************************)
Init ==
    /\ pages \in PageChains
    /\ container = NoContainer
    /\ created = NoFetch
    /\ iters = [i \in 1..MaxIters |-> AbsentIter]
    /\ fetchCount = 0
    /\ detail = NoDetail

\* api.recording_report.access_summary(**kw): the decorator returns a
\* container holding the function and its arguments; the body does not run.
CallAccessSummary ==
    /\ ~container.made
    /\ \E kw \in SummaryCalls :
          /\ container' = [made |-> TRUE, kw |-> kw]
          /\ created' = [done |-> TRUE, endpoint |-> SummaryEndpoint,
                         params |-> AccessSummaryParams(BindSummaryArgs(kw))]
    /\ UNCHANGED <<pages, iters, fetchCount, detail>>

\* iter(container): the generator function is called with the stored
\* arguments; this creates a generator and runs nothing of its body.
NewIterator ==
    /\ container.made
    /\ \E i \in 1..MaxIters :
          /\ iters[i].st = "absent"
          /\ \A j \in 1..(i - 1) : iters[j].st # "absent"
          /\ iters' = [iters EXCEPT ![i].st = "fresh"]
    /\ UNCHANGED <<pages, container, created, fetchCount, detail>>

\* next(iterator), as a whole.
NextItem ==
    \E i \in 1..MaxIters, failAt \in 0..Len(pages) :
       LET g == iters[i]
           h == GenResume(g, failAt)
           raised == /\ g.st \in {"fresh", "running"}
                     /\ SummaryArgsOk(BindSummaryArgs(container.kw))
                     /\ GetItemsNext(g.pg, g.pos, failAt).kind = "error"
       IN  /\ g.st # "absent"
           /\ g.reqs < MaxRequests
           /\ failAt = 0 \/ (g.st \in {"fresh", "running"} /\ failAt > g.pg)
           /\ iters' = [iters EXCEPT ![i] =
                           [h EXCEPT !.reqs = g.reqs + 1,
                                     !.failed = IF raised THEN failAt ELSE @]]
           /\ fetchCount' = fetchCount + (h.fetches - g.fetches)
           /\ UNCHANGED <<pages, container, created, detail>>

\* api.recording_report.access_detail(**kw), as a whole.
CallAccessDetail ==
    \E kw \in DetailCalls, ok \in BOOLEAN :
       LET r == AccessDetail(kw, ok)
       IN  /\ r.sent.done => fetchCount < MaxDetailFetches
           /\ detail' = [called |-> TRUE, kw |-> kw, kind |-> r.kind,
                         obj |-> r.obj, sent |-> r.sent, before |-> fetchCount]
           /\ fetchCount' = fetchCount + (IF r.sent.done THEN 1 ELSE 0)
           /\ UNCHANGED <<pages, container, created, iters>>

Next == CallAccessSummary \/ NewIterator \/ NextItem

Spec == Init /\ [][Next]_vars

NextDetail == CallAccessDetail

SpecDetail == Init /\ [][NextDetail]_vars

(***************************************************************************)
(* What the claims speak of.                                               *)
(***************************************************************************)
RECURSIVE ItemsOfPages(_)
ItemsOfPages(k) ==
    IF k = 0 THEN <<>> ELSE ItemsOfPages(k - 1) \o pages[k].items

\* concat(P1.items, ..., Pk.items)
AllItems == ItemsOfPages(Len(pages))

\* One output object per raw item, in the order received.
ExpectedObjects ==
    [n \in 1..Len(AllItems) |-> [type |-> "recording_report", json |-> AllItems[n]]]

ObjectsOfFirstPages(k) ==
    [n \in 1..Len(ItemsOfPages(k)) |->
        [type |-> "recording_report", json |-> ItemsOfPages(k)[n]]]

\* The least number of pages that supplies n requested items: no page for
\* no request, every page when the chain holds fewer than n items.
MinPagesFor(n) ==
    IF n = 0 THEN 0
    ELSE LET enough == {j \in 1..Len(pages) : Len(ItemsOfPages(j)) >= n}
         IN  IF enough = {} THEN Len(pages)
             ELSE CHOOSE j \in enough : \A k \in enough : j <= k

RECURSIVE FetchesOfIters(_)
FetchesOfIters(n) ==
    IF n = 0 THEN 0 ELSE FetchesOfIters(n - 1) + iters[n].fetches

\* A call of access_summary with a parameter of the wrong type: max present
\* and no integer, or from, to, hostEmail, siteUrl present and no string.
WronglyTypedSummary(kw) ==
    \/ kw.max.t \notin {"omitted", "none", "int"}
    \/ \E v \in {kw._from, kw.to, kw.hostEmail, kw.siteUrl} :
          v.t \notin {"omitted", "none", "str"}

\* The parameter mapping as C10 describes it: each supplied parameter under
\* its own name, hostEmail "all" when not given, no entry for None, the
\* extra parameters verbatim.
ClaimedSummaryParams(kw) ==
    LET named == ("max" :> kw.max) @@ ("from" :> kw._from) @@ ("to" :> kw.to)
                 @@ ("hostEmail" :> IF kw.hostEmail = Omitted THEN StrV("all")
                                    ELSE kw.hostEmail)
                 @@ ("siteUrl" :> kw.siteUrl)
    IN  [k \in {n \in DOMAIN named : named[n].t \notin {"omitted", "none"}}
            |-> named[k]] @@ kw.extra

(***************************************************************************)
(* C1.  An iteration drained to its end has produced one object per raw    *)
(* item of the chain, concat(P1.items, ..., Pk.items) in the order         *)
(* received, and has made exactly k fetches, k the number of pages.        *)
(***************************************************************************)
C1_DrainedIterationYieldsChain ==
    \A i \in 1..MaxIters :
       iters[i].st = "exhausted" =>
          /\ iters[i].out = ExpectedObjects
          /\ iters[i].fetches = Len(pages)

C1_Witness ==
    /\ Len(pages) = 2
    /\ Len(pages[1].items) = 2
    /\ Len(pages[2].items) = 1
    /\ iters[1].st = "exhausted"
    /\ Len(iters[1].out) = 3

(***************************************************************************)
(* C2.  Every drained iteration has made the initial fetch and a fetch per *)
(* page of its own, and when N iterators were requested and all are        *)
(* drained the session was called N times the number of pages.             *)
(***************************************************************************)
C2_EveryIterationRunsTheQueryAgain ==
    LET drained == {i \in 1..MaxIters : iters[i].st = "exhausted"}
    IN  /\ \A i \in drained :
              /\ iters[i].first.done
              /\ iters[i].first.endpoint = "recordingReport/accessSummary"
              /\ iters[i].fetches = Len(pages)
        /\ (\A i \in 1..MaxIters : iters[i].st \in {"absent", "exhausted"})
              => fetchCount = Cardinality(drained) * Len(pages)

C2_Witness ==
    /\ Len(pages) = 2
    /\ iters[1].st = "exhausted"
    /\ iters[2].st = "exhausted"
    /\ fetchCount = 4

(***************************************************************************)
(* C3.  When the session raises on the 2nd page fetch of an iteration, the *)
(* iteration has ended with that error after exactly two fetches, and what *)
(* it produced is page 1's items, each once and in order, also after any   *)
(* later request.                                                          *)
(***************************************************************************)
C3_ErrorOnSecondFetchAfterPageOne ==
    \A i \in 1..MaxIters :
       iters[i].failed = 2 =>
          /\ iters[i].st = "apierror"
          /\ iters[i].out = ObjectsOfFirstPages(1)
          /\ iters[i].fetches = 2

C3_Witness ==
    /\ Len(pages[1].items) = 2
    /\ iters[1].failed = 2
    /\ iters[1].st = "apierror"
    /\ Len(iters[1].out) = 2
    /\ iters[1].reqs = 4

(***************************************************************************)
(* C4.  access_detail with a recordingId that is None or no string ends in *)
(* a TypeError: the session was not called (its call count is what it was  *)
(* before the call) and no object was constructed, whatever max, hostEmail *)
(* and the extra parameters are.                                           *)
(***************************************************************************)
C4_DetailRejectsBadRecordingId ==
    (detail.called /\ detail.kw.recordingId.t # "str") =>
       /\ detail.kind = "TypeError"
       /\ ~detail.sent.done
       /\ detail.obj = NoObject
       /\ fetchCount = detail.before

C4_Witness ==
    /\ detail.called
    /\ detail.kw.recordingId = None
    /\ detail.kw.max = IntV("5")
    /\ detail.kw.hostEmail = StrV("h@x.com")
    /\ detail.kw.extra # EmptyDict
    /\ detail.kind = "TypeError"
    /\ fetchCount = 0

(***************************************************************************)
(* C5.  With a wrongly typed parameter given to access_summary, however    *)
(* the container is used, the session is never called and no item is       *)
(* produced.                                                               *)
(***************************************************************************)
C5_WrongTypeNeverFetches ==
    (container.made /\ WronglyTypedSummary(container.kw)) =>
       /\ fetchCount = 0
       /\ \A i \in 1..MaxIters :
             /\ iters[i].out = <<>>
             /\ iters[i].fetches = 0
             /\ ~iters[i].first.done
             /\ iters[i].st \in {"absent", "fresh", "typeerror"}

C5_Witness ==
    /\ container.made
    /\ container.kw.max = StrV("5")
    /\ iters[1].st = "typeerror"
    /\ iters[1].reqs = 2
    /\ iters[2].st = "typeerror"

(***************************************************************************)
(* C6.  A call with a wrongly typed parameter ends in the validation error *)
(* at the call itself: it returns no container.                            *)
(***************************************************************************)
C6_ValidationErrorAtTheCall ==
    container.made => ~WronglyTypedSummary(container.kw)

(***************************************************************************)
(* C7.  Creating the container and requesting an iterator fetch nothing;   *)
(* at every point an iteration has made the least number of fetches that   *)
(* supplies the items requested from it so far (none when validation       *)
(* fails; up to the failed one when a fetch raised).                       *)
(***************************************************************************)
C7_FetchesFollowDemand ==
    /\ (\A i \in 1..MaxIters : iters[i].reqs = 0) => fetchCount = 0
    /\ \A i \in 1..MaxIters :
          LET g == iters[i]
          IN  /\ g.st \in {"absent", "fresh"} => g.reqs = 0 /\ g.fetches = 0
              /\ g.st = "typeerror" => g.fetches = 0
              /\ (g.st # "typeerror" /\ g.failed = 0)
                    => g.fetches = MinPagesFor(g.reqs)
              /\ g.failed # 0
                    => g.fetches = g.failed /\ g.fetches <= MinPagesFor(g.reqs)

C7_Witness ==
    /\ Len(pages) = 2
    /\ Len(pages[1].items) = 2
    /\ iters[1].st = "running"
    /\ iters[1].reqs = 2
    /\ iters[1].fetches = 1
    /\ iters[2].st = "fresh"
    /\ fetchCount = 1

C9_IteratorsAreIndependent ==
    /\ \A i \in 1..MaxIters :
          LET g == iters[i]
          IN  /\ Len(g.out) <= Len(ExpectedObjects)
              /\ g.out = SubSeq(ExpectedObjects, 1, Len(g.out))
              /\ g.st = "running" => Len(g.out) = g.reqs
              /\ g.st = "exhausted" => g.out = ExpectedObjects
              /\ g.st = "apierror" => g.out = ObjectsOfFirstPages(g.failed - 1)
    /\ fetchCount = FetchesOfIters(MaxIters)

C9_Witness ==
    /\ Len(AllItems) = 4
    /\ iters[1].st = "running"
    /\ Len(iters[1].out) = 1
    /\ iters[2].st = "exhausted"
    /\ iters[1].fetches = 1
    /\ iters[2].fetches = 2

(***************************************************************************)
(* C10.  The parameter mapping of the initial fetch holds each supplied    *)
(* parameter under its own name (max, from, to, hostEmail, siteUrl),       *)
(* hostEmail "all" by default, nothing for None, the extras verbatim.      *)
(***************************************************************************)
C10_ParametersUnderTheirOwnNames ==
    \A i \in 1..MaxIters :
       iters[i].first.done =>
          iters[i].first.params = ClaimedSummaryParams(container.kw)

=============================================================================
